---- MODULE Spec2Model ----
(***************************************************************************)
(* Model of pretrain/validation.py: the epsilon-adjusted pairwise          *)
(* comparison (iswin), the all-pairs tournament (compute_wins), the        *)
(* competitive-set filter (compute_competitive_uids) and the per-batch     *)
(* loss loop (compute_losses with check_for_reasonable_output).            *)
(*                                                                         *)
(* Floats are modelled as exact values over the common denominator EpsDen, *)
(* extended with +infinity and NaN as IEEE-754 / Python produce them       *)
(* (0 * inf = NaN, every ordered comparison with NaN is false).            *)
(* epsilon_func is the external EpsilonFunc: for one call of iswin or      *)
(* compute_wins current_block is fixed, so the function is represented by  *)
(* its values compute_epsilon(current_block, b) for each model block b,    *)
(* each a multiple of 1/EpsDen in [0, 1].  Products are exact: the         *)
(* rounding of (1 - eps) * loss is not modelled.                           *)
(* The candidates of compute_wins and compute_competitive_uids are the     *)
(* uids 1..n, keys of both dictionaries; compute_wins gets them as the     *)
(* list <<1, ..., n>>, compute_competitive_uids iterates the score         *)
(* dictionary in any order.  check_for_reasonable_output is modelled for   *)
(* prompts of one row (1 x sequence length tensors, line 237).             *)
(***************************************************************************)
EXTENDS Integers, Sequences, FiniteSets, TLC

VARIABLES
    pc,                   \* position of the running function
    loss_i, loss_j,       \* iswin: the two losses passed in
    block_i, block_j,     \* iswin: the two blocks passed in
    epsilon_func,         \* [block -> numerator of compute_epsilon(current_block, block)]
    calls,                \* iswin: which of the calls (i,j) / (j,i) have returned
    ret_ij, ret_ji,       \* iswin: value returned by iswin(i,j) / iswin(j,i)
    uids,                 \* compute_wins: the list of uids
    uid_to_average_loss,  \* uid -> loss
    uid_to_block,         \* uid -> block
    wins, win_rate,       \* compute_wins: the two result dictionaries
    i, j,                 \* compute_wins: positions of uid_i / uid_j in uids
    total_matches,        \* compute_wins: matches counted for uid_i
    compared,             \* compute_wins: how often iswin was called for each ordered pair
    loss_items,           \* compute_competitive_uids: iteration order of uid_to_average_loss
    epsilon_inf,          \* numerator of compute_epsilon(current_block=inf, model_block=0)
    fully_decayed_losses, \* compute_competitive_uids: uid -> fully decayed loss
    competitive_uids,     \* compute_competitive_uids: the list being built
    k,                    \* compute_competitive_uids: position in loss_items
    batches,              \* compute_losses: per batch, what evaluating the model on it does
    reasonable,           \* compute_losses: outcome of check_for_reasonable_output
    losses,               \* compute_losses: the list being built
    b,                    \* compute_losses: position of the batch being evaluated
    evaluated             \* compute_losses: the batches the loop has run the model on, in order

vars == <<pc, loss_i, loss_j, block_i, block_j, epsilon_func, calls, ret_ij, ret_ji,
          uids, uid_to_average_loss, uid_to_block, wins, win_rate, i, j,
          total_matches, compared, loss_items, epsilon_inf, fully_decayed_losses,
          competitive_uids, k, batches, reasonable, losses, b, evaluated>>

iswinVars == <<loss_i, loss_j, block_i, block_j, calls, ret_ij, ret_ji>>
winsVars == <<uids, wins, win_rate, i, j, total_matches, compared>>
filterVars == <<loss_items, epsilon_inf, fully_decayed_losses, competitive_uids, k>>
lossesVars == <<batches, reasonable, losses, b, evaluated>>
candVars == <<uid_to_average_loss, uid_to_block>>

(***************************************************************************)
(* Bounds                                                                  *)
(***************************************************************************)
MaxUids == 2
MaxScore == 1
MaxBlock == 1
EpsDen == 2
MaxBatches == 3

Blocks == 0..MaxBlock
EpsVals == 0..EpsDen

(***************************************************************************)
(* Floats: [k |-> "fin", num |-> n] is n / EpsDen; "inf" is +infinity.     *)
(***************************************************************************)
Fin(n) == [k |-> "fin", num |-> n]
PosInf == [k |-> "inf", num |-> 0]
NaN == [k |-> "nan", num |-> 0]

\* a finite loss s given as an input
Score(s) == Fin(s * EpsDen)
Scores == {Score(s) : s \in 0..MaxScore} \cup {PosInf}

\* 1 - eps, as a numerator over EpsDen
OneMinus(e) == EpsDen - e

\* float product (f / EpsDen) * x for a finite non-negative factor
Mul(f, x) ==
    CASE x.k = "nan" -> NaN
      [] x.k = "inf" -> IF f = 0 THEN NaN ELSE PosInf
      [] OTHER -> Fin((f * x.num) \div EpsDen)

\* float comparison x < y
Lt(x, y) ==
    CASE x.k = "nan" \/ y.k = "nan" -> FALSE
      [] x.k = "inf" -> FALSE
      [] y.k = "inf" -> TRUE
      [] OTHER -> x.num < y.num

\* float comparison x <= y
Le(x, y) ==
    CASE x.k = "nan" \/ y.k = "nan" -> FALSE
      [] OTHER -> Lt(x, y) \/ x = y

(***************************************************************************)
(* iswin                                                                   *)
(***************************************************************************)
iswin_discount_later(li, lj, bi, bj, eps) ==
    LET adj_i == IF bj < bi THEN Mul(OneMinus(eps[bi]), li) ELSE li
        adj_j == IF bi < bj THEN Mul(OneMinus(eps[bj]), lj) ELSE lj
    IN  Lt(adj_i, adj_j)

iswin_always_discount_i(li, lj, bi, bj, eps) ==
    LET adj_i == Mul(OneMinus(eps[bi]), li)
        adj_j == lj
    IN  Lt(adj_i, adj_j)

iswin_nonstrict(li, lj, bi, bj, eps) ==
    LET adj_i == IF bi < bj THEN Mul(OneMinus(eps[bi]), li) ELSE li
        adj_j == IF bj < bi THEN Mul(OneMinus(eps[bj]), lj) ELSE lj
    IN  Le(adj_i, adj_j)

iswin(li, lj, bi, bj, eps) ==
    LET adj_i == IF bi < bj THEN Mul(OneMinus(eps[bi]), li) ELSE li
        adj_j == IF bj < bi THEN Mul(OneMinus(eps[bj]), lj) ELSE lj
    IN  Lt(adj_i, adj_j)

(***************************************************************************)
(* Values the variables of a function hold while another one is modelled.  *)
(***************************************************************************)
IswinIdle ==
    /\ loss_i = PosInf /\ loss_j = PosInf
    /\ block_i = 0 /\ block_j = 0
    /\ calls = {} /\ ret_ij = FALSE /\ ret_ji = FALSE

WinsIdle ==
    /\ uids = <<>> /\ wins = <<>> /\ win_rate = <<>>
    /\ i = 0 /\ j = 0 /\ total_matches = 0 /\ compared = <<>>

FilterIdle ==
    /\ loss_items = <<>> /\ epsilon_inf = 0
    /\ fully_decayed_losses = <<>> /\ competitive_uids = <<>> /\ k = 0

LossesIdle ==
    /\ batches = <<>> /\ reasonable = FALSE /\ losses = <<>>
    /\ b = 0 /\ evaluated = <<>>

CandIdle == uid_to_average_loss = <<>> /\ uid_to_block = <<>>

(***************************************************************************)
(* Specification of iswin: the inputs are drawn, then the function is      *)
(* called as iswin(i, j) and, with the candidates swapped, as iswin(j, i). *)
(***************************************************************************)
IswinInit ==
    /\ pc = "iswin"
    /\ loss_i \in Scores /\ loss_j \in Scores
    /\ block_i \in Blocks /\ block_j \in Blocks
    /\ epsilon_func \in [Blocks -> EpsVals]
    /\ calls = {} /\ ret_ij = FALSE /\ ret_ji = FALSE
    /\ CandIdle /\ WinsIdle /\ FilterIdle /\ LossesIdle

CallIswin ==
    /\ pc = "iswin" /\ "ij" \notin calls
    /\ ret_ij' = iswin(loss_i, loss_j, block_i, block_j, epsilon_func)
    /\ calls' = calls \cup {"ij"}
    /\ UNCHANGED <<pc, loss_i, loss_j, block_i, block_j, epsilon_func, ret_ji,
                   candVars, winsVars, filterVars, lossesVars>>

CallIswinSwapped ==
    /\ pc = "iswin" /\ "ji" \notin calls
    /\ ret_ji' = iswin(loss_j, loss_i, block_j, block_i, epsilon_func)
    /\ calls' = calls \cup {"ji"}
    /\ UNCHANGED <<pc, loss_i, loss_j, block_i, block_j, epsilon_func, ret_ij,
                   candVars, winsVars, filterVars, lossesVars>>

IswinNext == CallIswin \/ CallIswinSwapped

SpecIswin == IswinInit /\ [][IswinNext]_vars

(***************************************************************************)
(* compute_wins                                                            *)
(***************************************************************************)
\* a win rate n / d
Rate(n, d) == [num |-> n, den |-> d]

SameUid_never(uid_i, uid_j) == FALSE

\* line 92: if uid_i == uid_j: continue
SameUid(uid_i, uid_j) == uid_i = uid_j

WinIncrement_inverted(uid_i, uid_j) ==
    IF iswin(uid_to_average_loss[uid_i], uid_to_average_loss[uid_j],
             uid_to_block[uid_i], uid_to_block[uid_j], epsilon_func)
    THEN 0 ELSE 1

\* lines 95-106: 1 if iswin(...) else 0
WinIncrement(uid_i, uid_j) ==
    IF iswin(uid_to_average_loss[uid_i], uid_to_average_loss[uid_j],
             uid_to_block[uid_i], uid_to_block[uid_j], epsilon_func)
    THEN 1 ELSE 0

WinRate_default_zero(w, t) == IF t > 0 THEN Rate(w, t) ELSE Rate(0, 1)

\* line 109: wins[uid_i] / total_matches if total_matches > 0 else 1
WinRate(w, t) == IF t > 0 THEN Rate(w, t) ELSE Rate(1, 1)

WinsInit ==
    /\ pc = "wins_enter"
    /\ \E n \in 0..MaxUids :
          /\ uids = [x \in 1..n |-> x]
          /\ uid_to_average_loss \in [1..n -> Scores]
          /\ uid_to_block \in [1..n -> Blocks]
    /\ epsilon_func \in [Blocks -> EpsVals]
    /\ wins = <<>> /\ win_rate = <<>>
    /\ i = 0 /\ j = 0 /\ total_matches = 0 /\ compared = <<>>
    /\ IswinIdle /\ FilterIdle /\ LossesIdle

\* lines 87-90: both dictionaries start at 0 for every uid; the outer loop
\* takes its first uid_i, if there is one, with total_matches = 0
WinsEnter ==
    /\ pc = "wins_enter"
    /\ wins' = [u \in {uids[x] : x \in 1..Len(uids)} |-> 0]
    /\ win_rate' = [u \in {uids[x] : x \in 1..Len(uids)} |-> Rate(0, 1)]
    /\ compared' = [p \in {uids[x] : x \in 1..Len(uids)} \X
                          {uids[x] : x \in 1..Len(uids)} |-> 0]
    /\ i' = 1
    /\ total_matches' = 0
    /\ j' = 1
    /\ pc' = IF Len(uids) >= 1 THEN "wins_inner" ELSE "wins_outer"
    /\ UNCHANGED <<uids, epsilon_func, candVars, iswinVars, filterVars, lossesVars>>

\* lines 91-93: uid_j is uid_i, continue
WinsSkipSelf ==
    /\ pc = "wins_inner" /\ j <= Len(uids)
    /\ SameUid(uids[i], uids[j])
    /\ j' = j + 1
    /\ UNCHANGED <<pc, uids, wins, win_rate, i, total_matches, compared, epsilon_func,
                   candVars, iswinVars, filterVars, lossesVars>>

\* lines 91-107: one comparison of uid_i with uid_j
WinsCompare ==
    /\ pc = "wins_inner" /\ j <= Len(uids)
    /\ ~SameUid(uids[i], uids[j])
    /\ wins' = [wins EXCEPT ![uids[i]] = @ + WinIncrement(uids[i], uids[j])]
    /\ compared' = [compared EXCEPT ![<<uids[i], uids[j]>>] = @ + 1]
    /\ total_matches' = total_matches + 1
    /\ j' = j + 1
    /\ UNCHANGED <<pc, uids, win_rate, i, epsilon_func,
                   candVars, iswinVars, filterVars, lossesVars>>

\* lines 108-109, 89-90: the inner loop is over, set win_rate[uid_i]; the
\* outer loop takes the next uid_i, if there is one, with total_matches = 0
WinsRate ==
    /\ pc = "wins_inner" /\ j > Len(uids)
    /\ win_rate' = [win_rate EXCEPT ![uids[i]] = WinRate(wins[uids[i]], total_matches)]
    /\ i' = i + 1
    /\ total_matches' = IF i + 1 <= Len(uids) THEN 0 ELSE total_matches
    /\ j' = IF i + 1 <= Len(uids) THEN 1 ELSE j
    /\ pc' = IF i + 1 <= Len(uids) THEN "wins_inner" ELSE "wins_outer"
    /\ UNCHANGED <<uids, wins, compared, epsilon_func,
                   candVars, iswinVars, filterVars, lossesVars>>

\* line 111: return wins, win_rate
WinsReturn ==
    /\ pc = "wins_outer" /\ i > Len(uids)
    /\ pc' = "wins_done"
    /\ UNCHANGED <<uids, wins, win_rate, i, j, total_matches, compared, epsilon_func,
                   candVars, iswinVars, filterVars, lossesVars>>

WinsNext ==
    \/ WinsEnter \/ WinsSkipSelf \/ WinsCompare \/ WinsRate \/ WinsReturn

SpecWins == WinsInit /\ [][WinsNext]_vars

(***************************************************************************)
(* compute_competitive_uids                                                *)
(***************************************************************************)
\* the orders in which a dictionary with keys S can be iterated
Orders(S) ==
    {o \in [1..Cardinality(S) -> S] : \A x, y \in 1..Cardinality(S) : o[x] = o[y] => x = y}

earlier_uids_strict(uid) ==
    {u \in DOMAIN uid_to_block : u # uid /\ uid_to_block[u] < uid_to_block[uid]}

\* lines 146-150: the other uids at an earlier or the same block
earlier_uids(uid) ==
    {u \in DOMAIN uid_to_block : u # uid /\ uid_to_block[u] <= uid_to_block[uid]}

\* line 151: all(loss < fully_decayed_losses[uid_other] for uid_other in earlier_uids)
BeatsAllEarlier(uid, loss) ==
    \A uid_other \in earlier_uids(uid) : Lt(loss, fully_decayed_losses[uid_other])

FilterInit ==
    /\ pc = "filter_enter"
    /\ \E n \in 0..MaxUids :
          /\ uid_to_average_loss \in [1..n -> Scores]
          /\ uid_to_block \in [1..n -> Blocks]
          /\ loss_items \in Orders(1..n)
    /\ epsilon_inf \in EpsVals
    /\ epsilon_func = [x \in Blocks |-> 0]
    /\ fully_decayed_losses = <<>> /\ competitive_uids = <<>> /\ k = 0
    /\ IswinIdle /\ WinsIdle /\ LossesIdle

\* lines 131-142: the fully decayed loss of every uid, and the empty result list
FilterEnter ==
    /\ pc = "filter_enter"
    /\ fully_decayed_losses' =
          [u \in DOMAIN uid_to_block |-> Mul(OneMinus(epsilon_inf), uid_to_average_loss[u])]
    /\ competitive_uids' = <<>>
    /\ k' = 1
    /\ pc' = "filter_loop"
    /\ UNCHANGED <<loss_items, epsilon_inf, epsilon_func,
                   candVars, iswinVars, winsVars, lossesVars>>

\* lines 143-152, the uid is kept
FilterKeep ==
    /\ pc = "filter_loop" /\ k <= Len(loss_items)
    /\ BeatsAllEarlier(loss_items[k], uid_to_average_loss[loss_items[k]])
    /\ competitive_uids' = Append(competitive_uids, loss_items[k])
    /\ k' = k + 1
    /\ UNCHANGED <<pc, loss_items, epsilon_inf, fully_decayed_losses, epsilon_func,
                   candVars, iswinVars, winsVars, lossesVars>>

\* lines 143-151, the uid is not kept
FilterDrop ==
    /\ pc = "filter_loop" /\ k <= Len(loss_items)
    /\ ~BeatsAllEarlier(loss_items[k], uid_to_average_loss[loss_items[k]])
    /\ k' = k + 1
    /\ UNCHANGED <<pc, loss_items, epsilon_inf, fully_decayed_losses, competitive_uids,
                   epsilon_func, candVars, iswinVars, winsVars, lossesVars>>

\* line 154: return competitive_uids
FilterReturn ==
    /\ pc = "filter_loop" /\ k > Len(loss_items)
    /\ pc' = "filter_done"
    /\ UNCHANGED <<loss_items, epsilon_inf, fully_decayed_losses, competitive_uids, k,
                   epsilon_func, candVars, iswinVars, winsVars, lossesVars>>

FilterNext == FilterEnter \/ FilterKeep \/ FilterDrop \/ FilterReturn

SpecFilter == FilterInit /\ [][FilterNext]_vars

(***************************************************************************)
(* check_for_reasonable_output and compute_losses                          *)
(***************************************************************************)
\* line 172: tokens generated per prompt
output_length == 20

\* lines 187-211, from the number of positions at which the two generations
\* agree and the count of the most common token of each generation
check_for_reasonable_output(overlap, count1, count2) ==
    IF 2 * overlap >= output_length THEN FALSE
    ELSE IF 2 * count1 > output_length /\ 2 * count2 > output_length THEN FALSE
    ELSE TRUE

\* what the forward pass and the loss do on one batch: a loss, or an exception
BatchOutcomes ==
    {[raises |-> FALSE, loss |-> s] : s \in Scores} \cup {[raises |-> TRUE, loss |-> PosInf]}

FailedLosses_one_short(n) == [x \in 1..(n - 1) |-> PosInf]

\* line 245: [math.inf for _ in range(len(batches))]
FailedLosses(n) == [x \in 1..n |-> PosInf]

LossesInit ==
    /\ pc = "losses_enter"
    /\ \E n \in 0..MaxBatches : batches \in [1..n -> BatchOutcomes]
    /\ reasonable = FALSE /\ losses = <<>> /\ b = 0 /\ evaluated = <<>>
    /\ epsilon_func = [x \in Blocks |-> 0]
    /\ CandIdle /\ IswinIdle /\ WinsIdle /\ FilterIdle

\* lines 239-240: batches[0] or batches[1] does not exist, IndexError leaves the function
LossesTooFewBatches ==
    /\ pc = "losses_enter" /\ Len(batches) < 2
    /\ pc' = "losses_raised"
    /\ UNCHANGED <<batches, reasonable, losses, b, evaluated, epsilon_func,
                   candVars, iswinVars, winsVars, filterVars>>

\* lines 233-243: model.to, model.eval or model.generate raises; nothing catches it
LossesSetupRaises ==
    /\ pc = "losses_enter" /\ Len(batches) >= 2
    /\ pc' = "losses_raised"
    /\ UNCHANGED <<batches, reasonable, losses, b, evaluated, epsilon_func,
                   candVars, iswinVars, winsVars, filterVars>>

\* lines 233-245: the check fails, every batch gets math.inf
LossesCheckFails ==
    /\ pc = "losses_enter" /\ Len(batches) >= 2
    /\ \E overlap \in 0..output_length, count1, count2 \in 1..output_length :
          /\ ~check_for_reasonable_output(overlap, count1, count2)
          /\ reasonable' = FALSE
    /\ losses' = FailedLosses(Len(batches))
    /\ pc' = "losses_done"
    /\ UNCHANGED <<batches, b, evaluated, epsilon_func,
                   candVars, iswinVars, winsVars, filterVars>>

\* lines 233-251: the check passes, the loop starts with losses = []
LossesCheckPasses ==
    /\ pc = "losses_enter" /\ Len(batches) >= 2
    /\ \E overlap \in 0..output_length, count1, count2 \in 1..output_length :
          /\ check_for_reasonable_output(overlap, count1, count2)
          /\ reasonable' = TRUE
    /\ losses' = <<>>
    /\ b' = 1
    /\ pc' = "losses_loop"
    /\ UNCHANGED <<batches, evaluated, epsilon_func,
                   candVars, iswinVars, winsVars, filterVars>>

\* lines 252-280: the batch is evaluated and its loss appended
LossesBatch ==
    /\ pc = "losses_loop" /\ b <= Len(batches)
    /\ ~batches[b].raises
    /\ losses' = Append(losses, batches[b].loss)
    /\ evaluated' = Append(evaluated, b)
    /\ b' = b + 1
    /\ UNCHANGED <<pc, batches, reasonable, epsilon_func,
                   candVars, iswinVars, winsVars, filterVars>>

\* lines 252-284: the evaluation raises, math.inf is appended
LossesBatchRaises ==
    /\ pc = "losses_loop" /\ b <= Len(batches)
    /\ batches[b].raises
    /\ losses' = Append(losses, PosInf)
    /\ evaluated' = Append(evaluated, b)
    /\ b' = b + 1
    /\ UNCHANGED <<pc, batches, reasonable, epsilon_func,
                   candVars, iswinVars, winsVars, filterVars>>

\* line 286: return losses
LossesReturn ==
    /\ pc = "losses_loop" /\ b > Len(batches)
    /\ pc' = "losses_done"
    /\ UNCHANGED <<batches, reasonable, losses, b, evaluated, epsilon_func,
                   candVars, iswinVars, winsVars, filterVars>>

LossesNext ==
    \/ LossesTooFewBatches \/ LossesSetupRaises \/ LossesCheckFails \/ LossesCheckPasses
    \/ LossesBatch \/ LossesBatchRaises \/ LossesReturn

SpecLosses == LossesInit /\ [][LossesNext]_vars

(***************************************************************************)
(* Properties                                                              *)
(***************************************************************************)
\* the effective score of a candidate against an opponent, as the contract
\* of iswin states it: discounted only when strictly earlier
Effective(score, own_block, other_block, eps) ==
    IF own_block < other_block THEN Mul(OneMinus(eps[own_block]), score) ELSE score

\* what iswin(si, sj, bi, bj) has to return, case by case
IswinExpected(si, sj, bi, bj, eps) ==
    CASE bi < bj -> Lt(Mul(OneMinus(eps[bi]), si), sj)
      [] bj < bi -> Lt(si, Mul(OneMinus(eps[bj]), sj))
      [] OTHER -> Lt(si, sj)

\* the same for two finite scores, in integer arithmetic
IswinFinite(si, sj, bi, bj, eps) ==
    CASE bi < bj -> OneMinus(eps[bi]) * si.num < EpsDen * sj.num
      [] bj < bi -> EpsDen * si.num < OneMinus(eps[bj]) * sj.num
      [] OTHER -> si.num < sj.num

\* C1: iswin returns true iff the effective score of i is strictly less than
\* the effective score of j, where only a strictly earlier candidate is
\* discounted by (1 - epsilon); at equal blocks it is the plain comparison.
C1_IswinContract ==
    /\ "ij" \in calls =>
          /\ ret_ij = IswinExpected(loss_i, loss_j, block_i, block_j, epsilon_func)
          /\ ret_ij = Lt(Effective(loss_i, block_i, block_j, epsilon_func),
                         Effective(loss_j, block_j, block_i, epsilon_func))
          /\ (loss_i.k = "fin" /\ loss_j.k = "fin") =>
                ret_ij = IswinFinite(loss_i, loss_j, block_i, block_j, epsilon_func)
          /\ block_i = block_j => ret_ij = Lt(loss_i, loss_j)
    /\ "ji" \in calls =>
          /\ ret_ji = IswinExpected(loss_j, loss_i, block_j, block_i, epsilon_func)
          /\ block_i = block_j => ret_ji = Lt(loss_j, loss_i)

\* the earlier candidate wins only through its discount
C1_Witness ==
    /\ "ij" \in calls /\ block_i < block_j
    /\ ret_ij /\ ~Lt(loss_i, loss_j) /\ loss_i.k = "fin" /\ epsilon_func[block_i] < EpsDen

\* C5: iswin(i, j) and iswin(j, i) are never both true, and when the two
\* effective scores are equal both are false.
C5_NoDoubleWin ==
    calls = {"ij", "ji"} =>
        /\ ~(ret_ij /\ ret_ji)
        /\ Effective(loss_i, block_i, block_j, epsilon_func)
             = Effective(loss_j, block_j, block_i, epsilon_func)
           => ~ret_ij /\ ~ret_ji

\* a tie of the effective scores that the discount produces
C5_Witness ==
    /\ calls = {"ij", "ji"} /\ block_i < block_j /\ loss_i # loss_j
    /\ Effective(loss_i, block_i, block_j, epsilon_func)
         = Effective(loss_j, block_j, block_i, epsilon_func)
    /\ ~ret_ij /\ ~ret_ji

UidSet == {uids[x] : x \in 1..Len(uids)}

\* the number of opponents a uid beats, by the comparator
Beaten(u) ==
    {v \in UidSet \ {u} :
        iswin(uid_to_average_loss[u], uid_to_average_loss[v],
              uid_to_block[u], uid_to_block[v], epsilon_func)}

\* C2: compute_wins compares every ordered pair of distinct uids exactly once,
\* never a uid with itself, wins[u] is the number of opponents u beats, and
\* both dictionaries have exactly the input uids as keys.
C2_AllPairsOnce ==
    /\ pc \in {"wins_outer", "wins_inner", "wins_done"} =>
          \A u, v \in UidSet : compared[<<u, v>>] <= (IF u = v THEN 0 ELSE 1)
    /\ pc = "wins_done" =>
          /\ DOMAIN wins = UidSet /\ DOMAIN win_rate = UidSet
          /\ \A u, v \in UidSet : compared[<<u, v>>] = (IF u = v THEN 0 ELSE 1)
          /\ \A u \in UidSet : wins[u] = Cardinality(Beaten(u))

C2_Witness ==
    /\ pc = "wins_done" /\ Len(uids) >= 2
    /\ \E u, v \in UidSet : u # v /\ wins[u] = 1 /\ wins[v] = 0

\* C4: win_rate[uid] is wins[uid] / (n - 1) for n >= 2 candidates and 1 for a
\* single candidate; 0 <= wins[uid] <= n - 1 and the rate lies in [0, 1].
C4_WinRate ==
    pc = "wins_done" =>
        \A u \in UidSet :
            /\ Len(uids) >= 2 => win_rate[u] = Rate(wins[u], Len(uids) - 1)
            /\ Len(uids) = 1 => win_rate[u] = Rate(1, 1)
            /\ 0 <= wins[u] /\ wins[u] <= Len(uids) - 1
            /\ win_rate[u].den > 0
            /\ 0 <= win_rate[u].num /\ win_rate[u].num <= win_rate[u].den

C4_Witness ==
    /\ pc = "wins_done" /\ Len(uids) = 1
    /\ win_rate[uids[1]] = Rate(1, 1) /\ wins[uids[1]] = 0

\* C8: a candidate whose score is +infinity never wins a comparison, whatever
\* the opponent's score, the blocks and epsilon (epsilon = 1 included), so it
\* has no win in compute_wins.
C8_InfNeverWins ==
    /\ pc = "wins_enter" =>
          \A sj \in Scores : \A bi, bj \in Blocks :
              ~iswin(PosInf, sj, bi, bj, epsilon_func)
    /\ pc \in {"wins_outer", "wins_inner", "wins_done"} =>
          \A u \in UidSet : uid_to_average_loss[u] = PosInf => wins[u] = 0

\* an infinite score that is discounted with epsilon = 1 against a finite one
C8_Witness ==
    /\ pc = "wins_done" /\ Len(uids) >= 2
    /\ \E u, v \in UidSet :
          /\ uid_to_average_loss[u] = PosInf /\ uid_to_average_loss[v] # PosInf
          /\ uid_to_block[u] < uid_to_block[v]
          /\ epsilon_func[uid_to_block[u]] = EpsDen
          /\ wins[u] = 0

AllEqual ==
    \A u, v \in UidSet :
        /\ uid_to_average_loss[u] = uid_to_average_loss[v]
        /\ uid_to_block[u] = uid_to_block[v]

\* C9: when all n >= 2 candidates have the same score and the same block,
\* every uid has wins 0 and win rate 0.
C9_AllTied ==
    (pc = "wins_done" /\ Len(uids) >= 2 /\ AllEqual) =>
        \A u \in UidSet : wins[u] = 0 /\ win_rate[u] = Rate(0, Len(uids) - 1)

C9_Witness ==
    /\ pc = "wins_done" /\ Len(uids) >= 2 /\ AllEqual
    /\ uid_to_average_loss[uids[1]].k = "fin"
    /\ \E x \in Blocks : epsilon_func[x] > 0

Candidates == DOMAIN uid_to_block
Competitive == {competitive_uids[x] : x \in 1..Len(competitive_uids)}

\* the rule for keeping a uid: it beats the fully decayed score of every other
\* candidate of an earlier or equal block
Kept(u) ==
    \A v \in Candidates \ {u} :
        uid_to_block[v] <= uid_to_block[u] =>
            Lt(uid_to_average_loss[u], Mul(OneMinus(epsilon_inf), uid_to_average_loss[v]))

\* C3: compute_competitive_uids keeps a uid iff its score is below the fully
\* decayed score of every other candidate of an earlier or equal block, and
\* lists the kept uids in the iteration order of the score mapping, each once.
C3_FilterRule ==
    /\ pc \in {"filter_loop", "filter_done"} =>
          competitive_uids = SelectSeq(SubSeq(loss_items, 1, k - 1), Kept)
    /\ pc = "filter_done" =>
          /\ competitive_uids = SelectSeq(loss_items, Kept)
          /\ Competitive = {u \in Candidates : Kept(u)}
          /\ Cardinality(Competitive) = Len(competitive_uids)

\* one uid kept and one dropped at the same block, iterated in descending order
C3_Witness ==
    /\ pc = "filter_done" /\ Len(loss_items) >= 2
    /\ loss_items[1] > loss_items[2]
    /\ uid_to_block[loss_items[1]] = uid_to_block[loss_items[2]]
    /\ competitive_uids = <<loss_items[2]>>

\* C6: for a non-empty input, a candidate whose block is the smallest of
\* uid_to_block is always in the list compute_competitive_uids returns.
C6_EarliestKept ==
    pc = "filter_done" =>
        \A u \in Candidates :
            (\A v \in Candidates : uid_to_block[u] <= uid_to_block[v]) => u \in Competitive

\* the epsilon functions whose values never fall below the fully decayed one
EpsilonAbove == [Blocks -> epsilon_inf..EpsDen]

\* C7: for every candidate the filter drops there is another candidate it can
\* never beat: iswin against it is false at every current block, for every
\* epsilon function that stays at or above its fully decayed value.
C7_PruningSound ==
    pc = "filter_done" =>
        \A u \in Candidates \ Competitive :
            \E v \in Candidates \ {u} :
                \A eps \in EpsilonAbove :
                    ~iswin(uid_to_average_loss[u], uid_to_average_loss[v],
                           uid_to_block[u], uid_to_block[v], eps)

====
